---- MODULE Spec2Model ----
(***************************************************************************)
(* Two-phase simplex pipeline of lab1 (src/lab1/main.py and src/lab1/src). *)
(*                                                                         *)
(* Conventions of the model:                                               *)
(*  - a float is an exact rational <<num, den>> with den > 0 in lowest     *)
(*    terms; float('inf') / np.inf is <<1, 0>>.  The rounding of float64   *)
(*    is modelled apart, in the section "solve_simplex in float64";        *)
(*  - Python lists are sequences, so index i of the code is index i + 1    *)
(*    here; None in the basis list is NoBasis;                             *)
(*  - a variable name f"x{i}" is the record [kind |-> "x", idx |-> i].     *)
(***************************************************************************)
EXTENDS Integers, Sequences, FiniteSets, TLC

VARIABLES
    pc,                 \* position of main(): raw, canonical, auxiliary, ...
    problem,            \* main.py:15  problem
    canonical_problem,  \* main.py:19  canonical_problem
    auxiliary_problem,  \* main.py:23  auxiliary_problem
    phase,              \* 0 before any solve, 1 = solve_simplex(auxiliary), 2 = solve_simplex(canonical)
    tableau,            \* simplex.py:37 tableau of the running solve_simplex
    basis,              \* simplex.py:16 basis of the running solve_simplex
    pivots,             \* number of pivots of the running solve_simplex (saturates at MaxPivots)
    last_pivot,         \* <<pivot_row, pivot_col>> of the latest pivot of the running solve, <<0, 0>> if none
    phase2_ran,         \* TRUE once main() reached line 35
    aux_solution,       \* main.py:27  aux_solution
    solution,           \* main.py:35  solution
    output,             \* what write_solution put into the output file
    heap,               \* the list and array objects of the interpreter, by address
    runs                \* the local names of each of the interleaved runs of the pipeline

\* the names of one run of main() followed on its own
main_vars == <<pc, problem, canonical_problem, auxiliary_problem, phase, tableau, basis,
               pivots, last_pivot, phase2_ran, aux_solution, solution, output>>

\* the objects and names of the interleaved runs
heap_vars == <<heap, runs>>

vars == <<main_vars, heap_vars>>

-----------------------------------------------------------------------------
(* Bounds of the model *)

MaxVars == 2
MaxRows == 2
MaxCoef == 1
MaxRhs == 1
MaxPivots == 8

-----------------------------------------------------------------------------
(* Exact rational arithmetic standing for the float arithmetic of the code *)

RECURSIVE GCD(_, _)
GCD(a, b) == IF b = 0 THEN a ELSE GCD(b, a % b)

Abs(a) == IF a < 0 THEN -a ELSE a

Norm(n, d) ==
    LET g == GCD(Abs(n), Abs(d))
    IN  IF d < 0 THEN <<(-n) \div g, (-d) \div g>> ELSE <<n \div g, d \div g>>

R(i) == <<i, 1>>
Zero == <<0, 1>>
One == <<1, 1>>
Inf == <<1, 0>>

RNeg(a) == <<-a[1], a[2]>>
RAdd(a, b) == Norm(a[1] * b[2] + b[1] * a[2], a[2] * b[2])
RSub(a, b) == RAdd(a, RNeg(b))
RMul(a, b) == Norm(a[1] * b[1], a[2] * b[2])
RDiv(a, b) == Norm(a[1] * b[2], a[2] * b[1])
RLt(a, b) == a[1] * b[2] < b[1] * a[2]
RLeq(a, b) == a[1] * b[2] <= b[1] * a[2]
RTimesInt(a, k) == RMul(a, R(k))

RECURSIVE RSum(_)
RSum(s) == IF s = <<>> THEN Zero ELSE RAdd(Head(s), RSum(Tail(s)))

Dot(a, b) == RSum([j \in 1..Len(a) |-> RMul(a[j], b[j])])

\* the tolerance 1e-9 of simplex.py, as the denominator of 1 / 10^9
EpsDen == 1000000000

\* x <= 1e-9   (simplex.py:51, negation of simplex.py:57)
LeqEps(x) == IF x[1] <= 0 THEN TRUE ELSE x[1] <= x[2] \div EpsDen
\* x > 1e-9    (simplex.py:57)
GtEps(x) == ~LeqEps(x)
\* x >= -1e-9  (simplex.py:46)
GeqNegEps(x) == LeqEps(RNeg(x))

\* np.argmin: the first index at which the least value stands
ArgMin(s) ==
    CHOOSE i \in 1..Len(s) :
        /\ \A j \in 1..Len(s) : ~RLt(s[j], s[i])
        /\ \A j \in 1..(i - 1) : RLt(s[i], s[j])

-----------------------------------------------------------------------------
(* models.py *)

NoBasis == 0

LinearProblem(objective, constraints, rhs, signs, var_names, is_max, var_signs, n_original_vars) ==
    [objective |-> objective, constraints |-> constraints, rhs |-> rhs, signs |-> signs,
     var_names |-> var_names, is_max |-> is_max, var_signs |-> var_signs,
     n_original_vars |-> n_original_vars]

\* the argument None of the constructor
NoVarSigns == <<0>>

\* models.py:28-38: var_signs = None is replaced by [1] * len(var_names) and
\* n_original_vars = 0 (None) by len(var_names)
NewLinearProblem(objective, constraints, rhs, signs, var_names, is_max, var_signs, n_original_vars) ==
    LinearProblem(objective, constraints, rhs, signs, var_names, is_max,
                  IF var_signs # NoVarSigns THEN var_signs
                  ELSE [j \in 1..Len(var_names) |-> 1],
                  IF n_original_vars # 0 THEN n_original_vars ELSE Len(var_names))

Solution(point, value, found, reason) ==
    [point |-> point, value |-> value, found |-> found, reason |-> reason]

\* the value of a variable of main() that is not assigned yet
NoProblem == LinearProblem(<<>>, <<>>, <<>>, <<>>, <<>>, FALSE, <<>>, 0)
NoSolution == Solution(<<>>, Zero, FALSE, "unset")
NoOutput == [written |-> FALSE, found |-> FALSE, names |-> <<>>, values |-> <<>>,
             value |-> Zero, reason |-> ""]

Name(k, i) == [kind |-> k, idx |-> i]

-----------------------------------------------------------------------------
(* canonical.py *)

\* number of rows among the first i whose relation is not '='  (slack_count)
RECURSIVE SlackCount(_, _)
SlackCount(signs, i) ==
    IF i = 0 THEN 0
    ELSE SlackCount(signs, i - 1) + (IF signs[i] # "=" THEN 1 ELSE 0)

\* canonical.py:19-21 raises IndexError when a row (or the objective, or
\* var_signs) is shorter than var_names
CanonicalFaults(lp) ==
    LET base_var_count == Len(lp.var_names)
    IN  \/ \E i \in 1..Len(lp.constraints) : Len(lp.constraints[i]) < base_var_count
        \/ Len(lp.objective) < base_var_count
        \/ Len(lp.var_signs) < base_var_count

\* canonical.py:17
base_var_count(lp) == Len(lp.var_names)

\* canonical.py:18-21
transformed_constraints(lp) ==
    [i \in 1..Len(lp.constraints) |->
        [j \in 1..base_var_count(lp) |-> RTimesInt(lp.constraints[i][j], lp.var_signs[j])]]

\* a canonicalizer that leaves the objective as it is
transformed_objective_unsigned(lp) == [j \in 1..base_var_count(lp) |-> lp.objective[j]]

\* canonical.py:22
transformed_objective(lp) ==
    [j \in 1..base_var_count(lp) |-> RTimesInt(lp.objective[j], lp.var_signs[j])]

\* a canonicalizer that reserves an extra column for every row, '=' rows included
num_slack_vars_every_row(lp) == Len(lp.signs)

\* canonical.py:25
num_slack_vars(lp) == SlackCount(lp.signs, Len(lp.signs))

\* canonical.py:29: zip stops at the shortest of its three arguments
canonical_rows(lp) ==
    LET a == Len(lp.constraints)
        b == Len(lp.signs)
        c == Len(lp.rhs)
        ab == IF a < b THEN a ELSE b
    IN  IF ab < c THEN ab ELSE c

\* a canonicalizer that adds +1 for a '>=' row as for a '<=' row
extra_vars_all_slack(lp, i) ==
    [k \in 1..num_slack_vars(lp) |->
        IF lp.signs[i] # "=" /\ k = SlackCount(lp.signs, i) THEN One ELSE Zero]

\* canonical.py:30-36
extra_vars(lp, i) ==
    [k \in 1..num_slack_vars(lp) |->
        IF lp.signs[i] = "<=" /\ k = SlackCount(lp.signs, i) THEN One
        ELSE IF lp.signs[i] = ">=" /\ k = SlackCount(lp.signs, i) THEN R(-1)
        ELSE Zero]

\* canonical.py:39-40
canonical_constraits(lp) ==
    [i \in 1..canonical_rows(lp) |-> transformed_constraints(lp)[i] \o extra_vars(lp, i)]

\* canonical.py:41
canonical_rhs(lp) == [i \in 1..canonical_rows(lp) |-> lp.rhs[i]]

\* a canonicalizer that copies the relations instead of writing '='
canonical_signs_copied(lp) == [i \in 1..canonical_rows(lp) |-> lp.signs[i]]

\* canonical.py:42
canonical_signs(lp) == [i \in 1..canonical_rows(lp) |-> "="]

\* canonical.py:45
canonical_var_names(lp) == lp.var_names \o [i \in 1..num_slack_vars(lp) |-> Name("s", i)]

\* canonical.py:48
extended_obj(lp) == transformed_objective(lp) \o [i \in 1..num_slack_vars(lp) |-> Zero]

\* a canonicalizer that writes signs for the variables of the input only
new_var_signs_base(lp) == [i \in 1..base_var_count(lp) |-> 1]

\* canonical.py:51
new_var_signs(lp) == [i \in 1..Len(canonical_var_names(lp)) |-> 1]

\* canonical.py:4-62
to_canonical(lp) ==
    LinearProblem(extended_obj(lp), canonical_constraits(lp), canonical_rhs(lp),
                  canonical_signs(lp), canonical_var_names(lp), lp.is_max,
                  new_var_signs(lp), lp.n_original_vars)

-----------------------------------------------------------------------------
(* auxiliary.py *)

\* auxiliary.py:21
n_constraints(lp) == Len(lp.rhs)

\* auxiliary.py:22
n_vars(lp) == Len(lp.constraints[1])

\* auxiliary.py:26-27
IsNegativeRhs(lp, i) == RLt(lp.rhs[i], Zero)

\* auxiliary.py:14, 30
aux_rhs(lp) ==
    [i \in 1..n_constraints(lp) |-> IF IsNegativeRhs(lp, i) THEN RNeg(lp.rhs[i]) ELSE lp.rhs[i]]

\* a builder that negates the rhs of a negative row and forgets its coefficients
normalized_rows_unflipped(lp) == [i \in 1..n_constraints(lp) |-> lp.constraints[i]]

\* auxiliary.py:13, 25-30
normalized_rows(lp) ==
    [i \in 1..n_constraints(lp) |->
        IF IsNegativeRhs(lp, i)
        THEN [j \in 1..Len(lp.constraints[i]) |-> RNeg(lp.constraints[i][j])]
        ELSE lp.constraints[i]]

\* a builder whose artificial block is lower triangular instead of the identity
artificial_columns_lower(lp, j) == [i \in 1..n_constraints(lp) |-> IF i <= j THEN One ELSE Zero]

\* auxiliary.py:33-35
artificial_columns(lp, j) == [i \in 1..n_constraints(lp) |-> IF i = j THEN One ELSE Zero]

\* auxiliary.py:33-35
aux_constraints(lp) ==
    [j \in 1..n_constraints(lp) |-> normalized_rows(lp)[j] \o artificial_columns(lp, j)]

\* auxiliary.py:36
artificial_vars(lp) == [i \in 1..n_constraints(lp) |-> Name("a", i)]

\* a builder whose objective rewards the artificial variables
aux_objective_negated(lp) ==
    [j \in 1..(n_vars(lp) + n_constraints(lp)) |-> IF j <= n_vars(lp) THEN Zero ELSE R(-1)]

\* auxiliary.py:40-42
aux_objective(lp) ==
    [j \in 1..(n_vars(lp) + n_constraints(lp)) |-> IF j <= n_vars(lp) THEN Zero ELSE One]

\* auxiliary.py:4-56
build_auxiliary(lp) ==
    LinearProblem(aux_objective(lp), aux_constraints(lp), aux_rhs(lp),
                  [i \in 1..n_constraints(lp) |-> "="],
                  lp.var_names \o artificial_vars(lp), FALSE,
                  lp.var_signs \o [i \in 1..n_constraints(lp) |-> 1], lp.n_original_vars)

-----
(* simplex.py *)

Rows(t) == Len(t) - 1
Cols(t) == Len(t[1]) - 1

\* an engine that loads the objective into the last row whatever the sense
InitTableau_unsigned(lp) ==
    [i \in 1..(Len(lp.constraints) + 1) |->
        IF i <= Len(lp.constraints) THEN lp.constraints[i] \o <<lp.rhs[i]>>
        ELSE lp.objective \o <<Zero>>]

\* simplex.py:7-40: the tableau at the start of the iterations
InitTableau(lp) ==
    LET m == Len(lp.constraints)
        n0 == Len(lp.constraints[1])
        added == SlackCount(lp.signs, Len(lp.signs))
        new_col(i) ==
            [k \in 1..added |->
                IF lp.signs[i] = "<=" /\ k = SlackCount(lp.signs, i) THEN One
                ELSE IF lp.signs[i] = ">=" /\ k = SlackCount(lp.signs, i) THEN R(-1)
                ELSE Zero]
        c == lp.objective \o [k \in 1..added |-> Zero]
        last_row == [j \in 1..Len(c) |-> IF lp.is_max THEN RNeg(c[j]) ELSE c[j]] \o <<Zero>>
    IN  [i \in 1..(m + 1) |->
            IF i <= m THEN lp.constraints[i] \o new_col(i) \o <<lp.rhs[i]>> ELSE last_row]

\* simplex.py:16-33: the basis list at the start of the iterations
InitBasis(lp) ==
    LET n0 == Len(lp.constraints[1])
    IN  [i \in 1..Len(lp.signs) |->
            IF lp.signs[i] = "=" THEN NoBasis ELSE n0 + SlackCount(lp.signs, i)]

\* simplex.py:45
obj_row(t) == SubSeq(t[Rows(t) + 1], 1, Cols(t))

\* simplex.py:46
IsOptimal(t) == \A j \in 1..Cols(t) : GeqNegEps(obj_row(t)[j])

\* an entering rule that takes the last of the equal most negative entries
pivot_col_last(t) ==
    CHOOSE i \in 1..Cols(t) :
        /\ \A j \in 1..Cols(t) : ~RLt(obj_row(t)[j], obj_row(t)[i])
        /\ \A j \in (i + 1)..Cols(t) : RLt(obj_row(t)[i], obj_row(t)[j])

\* simplex.py:48
pivot_col(t) == ArgMin(obj_row(t))

\* an unboundedness test that leaves out the last constraint row
IsUnbounded_short(t) == \A i \in 1..(Rows(t) - 1) : LeqEps(t[i][pivot_col(t)])

\* simplex.py:51
IsUnbounded(t) == \A i \in 1..Rows(t) : LeqEps(t[i][pivot_col(t)])

\* a ratio test that admits every row with a nonzero entering-column entry
ratios_unguarded(t) ==
    [i \in 1..Rows(t) |->
        IF t[i][pivot_col(t)] # Zero
        THEN RDiv(t[i][Cols(t) + 1], t[i][pivot_col(t)])
        ELSE Inf]

\* simplex.py:55-60
ratios(t) ==
    [i \in 1..Rows(t) |->
        IF GtEps(t[i][pivot_col(t)])
        THEN RDiv(t[i][Cols(t) + 1], t[i][pivot_col(t)])
        ELSE Inf]

\* simplex.py:61
pivot_row(t) == ArgMin(ratios(t))

\* a pivot that eliminates the entering column in the constraint rows only
PivotTableau_constraint_rows(t, pr, pcol) ==
    LET lead == [j \in 1..Len(t[pr]) |-> RDiv(t[pr][j], t[pr][pcol])]
    IN  [i \in 1..Len(t) |->
            IF i = pr THEN lead
            ELSE IF i = Len(t) THEN t[i]
            ELSE [j \in 1..Len(t[i]) |-> RSub(t[i][j], RMul(t[i][pcol], lead[j]))]]

\* simplex.py:63-69
PivotTableau(t, pr, pcol) ==
    LET lead == [j \in 1..Len(t[pr]) |-> RDiv(t[pr][j], t[pr][pcol])]
    IN  [i \in 1..Len(t) |->
            IF i = pr THEN lead
            ELSE [j \in 1..Len(t[i]) |-> RSub(t[i][j], RMul(t[i][pcol], lead[j]))]]

\* an engine that records every entering column at the first row
UpdateBasis_first(b, pr, pcol) == [b EXCEPT ![1] = pcol]

\* simplex.py:72-75
UpdateBasis(b, pr, pcol) ==
    IF Len(b) >= pr THEN [b EXCEPT ![pr] = pcol] ELSE Append(b, pcol)

\* simplex.py:78-84: the later row wins when two rows name the same column
ExtractPoint(t, b, num_vars) ==
    LET n == Cols(t)
        k == IF num_vars < n THEN num_vars ELSE n
    IN  [j \in 1..k |->
            LET rows == {i \in 1..Rows(t) : b[i] # NoBasis /\ b[i] = j}
            IN  IF rows = {} THEN Zero
                ELSE t[CHOOSE i \in rows : \A i2 \in rows : i2 <= i][n + 1]]

\* a result whose value is the corner entry of the tableau whatever the sense
OptimalSolution_unsigned(lp, t, b) ==
    Solution(ExtractPoint(t, b, Len(lp.objective)), t[Rows(t) + 1][Cols(t) + 1], TRUE,
             "simplex: solution found")

\* simplex.py:82-86
OptimalSolution(lp, t, b) ==
    LET val == t[Rows(t) + 1][Cols(t) + 1]
    IN  Solution(ExtractPoint(t, b, Len(lp.objective)),
                 IF lp.is_max THEN val ELSE RNeg(val), TRUE, "simplex: solution found")

\* a not-found result that blames the constraints
UnboundedSolution_infeasible == Solution(<<>>, Inf, FALSE, "problem is infeasible")

\* simplex.py:52
UnboundedSolution == Solution(<<>>, Inf, FALSE, "objective is not bounded above")

-----------------------------------------------------------------------------
(* utils.py *)

\* utils.py:19-27 need point and var_signs to hold n_original_vars entries
WriteFaults(sol, lp) ==
    sol.found /\ (Len(sol.point) < lp.n_original_vars \/ Len(lp.var_signs) < lp.n_original_vars)

\* utils.py:22
x_original(sol, lp) ==
    [i \in 1..lp.n_original_vars |-> RTimesInt(sol.point[i], lp.var_signs[i])]

\* utils.py:4-27 with a problem
write_solution(sol, lp) ==
    IF ~sol.found
    THEN [written |-> TRUE, found |-> FALSE, names |-> <<>>, values |-> <<>>,
          value |-> Zero, reason |-> sol.reason]
    ELSE [written |-> TRUE, found |-> TRUE,
          names |-> SubSeq(lp.var_names, 1, lp.n_original_vars),
          values |-> x_original(sol, lp), value |-> sol.value, reason |-> ""]

\* utils.py:10-17 without a problem
write_solution_plain(sol) ==
    IF ~sol.found
    THEN [written |-> TRUE, found |-> FALSE, names |-> <<>>, values |-> <<>>,
          value |-> Zero, reason |-> sol.reason]
    ELSE [written |-> TRUE, found |-> TRUE, names |-> <<>>, values |-> sol.point,
          value |-> sol.value, reason |-> ""]

-----------------------------------------------------------------------------
(* The problems read_lp_file hands to main(): lp_reader.py:92-119 pads the  *)
(* objective and every row to max_vars, names the variables x1..xn and sets *)
(* n_original_vars = max_vars.                                              *)

\* a negative coefficient of the canonical matrix comes from a variable declared
\* <= 0 (canonical.py:20) or stands in one of the named examples
Coefs == (-MaxCoef)..MaxCoef
RowCoefs == 0..MaxCoef
RhsValues == (-MaxRhs)..MaxRhs
Relations == {"<=", ">=", "="}

XNames(n) == [i \in 1..n |-> Name("x", i)]

ReadProblem(o, a, b, rel, sg, mx) ==
    LinearProblem([j \in 1..Len(o) |-> R(o[j])],
                  [i \in 1..Len(a) |-> [j \in 1..Len(a[i]) |-> R(a[i][j])]],
                  [i \in 1..Len(b) |-> R(b[i])],
                  rel, XNames(Len(o)), mx, sg, Len(o))

\* spec.md section 8: maximize 2x1 + 3x2, x1 + x2 <= 4, x1 + 2x2 <= 5
ExFeasible ==
    ReadProblem(<<2, 3>>, <<<<1, 1>>, <<1, 2>>>>, <<4, 5>>, <<"<=", "<=">>, <<1, 1>>, TRUE)

\* spec.md section 8: x1 + x2 = 1 and x1 + x2 = 3
ExInfeasible ==
    ReadProblem(<<1, 1>>, <<<<1, 1>>, <<1, 1>>>>, <<1, 3>>, <<"=", "=">>, <<1, 1>>, TRUE)

\* spec.md section 8: maximize x1, x1 - x2 <= 1
ExUnbounded ==
    ReadProblem(<<1, 0>>, <<<<1, -1>>>>, <<1>>, <<"<=">>, <<1, 1>>, TRUE)

\* Beale's degenerate problem, rows scaled to integers:
\* minimize -3x4 + 80x5 - 2x6 + 24x7 subject to
\*   4x1 + x4 - 32x5 - 4x6 + 36x7 = 0, 2x2 + x4 - 24x5 - x6 + 6x7 = 0, x3 + x6 = 1
ExBeale ==
    ReadProblem(<<0, 0, 0, -3, 80, -2, 24>>,
                <<<<4, 0, 0, 1, -32, -4, 36>>, <<0, 2, 0, 1, -24, -1, 6>>,
                  <<0, 0, 1, 0, 0, 1, 0>>>>,
                <<0, 0, 1>>, <<"=", "=", "=">>, <<1, 1, 1, 1, 1, 1, 1>>, FALSE)

Examples == {ExFeasible, ExInfeasible, ExUnbounded, ExBeale}

Start(lp) ==
    /\ problem = lp
    /\ pc = "raw"
    /\ canonical_problem = NoProblem
    /\ auxiliary_problem = NoProblem
    /\ phase = 0
    /\ tableau = <<>>
    /\ basis = <<>>
    /\ pivots = 0
    /\ last_pivot = <<0, 0>>
    /\ phase2_ran = FALSE
    /\ aux_solution = NoSolution
    /\ solution = NoSolution
    /\ output = NoOutput
    /\ heap = <<>>
    /\ runs = <<>>

\* the problems with at most nmax variables and mmax rows
StartFamily(nmax, mmax) ==
    \E n \in 1..nmax, m \in 1..mmax :
      \E o \in [1..n -> Coefs], a \in [1..m -> [1..n -> RowCoefs]], b \in [1..m -> RhsValues],
         rel \in [1..m -> Relations], sg \in [1..n -> {1, -1}], mx \in BOOLEAN :
           Start(ReadProblem(o, a, b, rel, sg, mx))

Init ==
    \/ \E lp \in Examples : Start(lp)
    \/ StartFamily(MaxVars, MaxRows)

-----------------------------------------------------------------------------
(* main.py *)

\* main.py:19
ToCanonical ==
    /\ pc = "raw"
    /\ IF CanonicalFaults(problem)
       THEN /\ pc' = "fault"
            /\ UNCHANGED canonical_problem
       ELSE /\ pc' = "canonical"
            /\ canonical_problem' = to_canonical(problem)
    /\ UNCHANGED <<problem, auxiliary_problem, phase, tableau, basis, pivots, last_pivot,
                   phase2_ran, aux_solution, solution, output>>
    /\ UNCHANGED heap_vars

\* main.py:23
BuildAuxiliary ==
    /\ pc = "canonical"
    /\ auxiliary_problem' = build_auxiliary(canonical_problem)
    /\ pc' = "auxiliary"
    /\ UNCHANGED <<problem, canonical_problem, phase, tableau, basis, pivots, last_pivot,
                   phase2_ran, aux_solution, solution, output>>
    /\ UNCHANGED heap_vars

\* main.py:27, simplex.py:7-40
StartPhase1 ==
    /\ pc = "auxiliary"
    /\ phase' = 1
    /\ tableau' = InitTableau(auxiliary_problem)
    /\ basis' = InitBasis(auxiliary_problem)
    /\ pivots' = 0
    /\ last_pivot' = <<0, 0>>
    /\ pc' = "solving"
    /\ UNCHANGED <<problem, canonical_problem, auxiliary_problem, phase2_ran, aux_solution,
                   solution, output>>
    /\ UNCHANGED heap_vars

\* the problem the running solve_simplex was called with
Solved == IF phase = 1 THEN auxiliary_problem ELSE canonical_problem

\* solve_simplex returns sol to main()
Return(sol) ==
    /\ IF phase = 1
       THEN /\ aux_solution' = sol
            /\ pc' = "phase1_done"
            /\ UNCHANGED solution
       ELSE /\ solution' = sol
            /\ pc' = "phase2_done"
            /\ UNCHANGED aux_solution
    /\ UNCHANGED <<problem, canonical_problem, auxiliary_problem, phase, tableau, basis,
                   pivots, last_pivot, phase2_ran, output>>
    /\ UNCHANGED heap_vars

\* simplex.py:45-47, 77-86
StopOptimal ==
    /\ pc = "solving"
    /\ IsOptimal(tableau)
    /\ Return(OptimalSolution(Solved, tableau, basis))

\* simplex.py:48-52
StopUnbounded ==
    /\ pc = "solving"
    /\ ~IsOptimal(tableau)
    /\ IsUnbounded(tableau)
    /\ Return(UnboundedSolution)

\* simplex.py:54-75
Pivot ==
    /\ pc = "solving"
    /\ ~IsOptimal(tableau)
    /\ ~IsUnbounded(tableau)
    /\ \E pcol \in {pivot_col(tableau)}, pr \in {pivot_row(tableau)} :
          /\ tableau' = PivotTableau(tableau, pr, pcol)
          /\ basis' = UpdateBasis(basis, pr, pcol)
          /\ last_pivot' = <<pr, pcol>>
    /\ pivots' = IF pivots < MaxPivots THEN pivots + 1 ELSE pivots
    /\ UNCHANGED <<pc, problem, canonical_problem, auxiliary_problem, phase, phase2_ran,
                   aux_solution, solution, output>>
    /\ UNCHANGED heap_vars

\* main.py:29-35
AfterPhase1 ==
    /\ pc = "phase1_done"
    /\ IF ~aux_solution.found
       THEN /\ output' = write_solution_plain(aux_solution)
            /\ pc' = "done"
            /\ UNCHANGED <<phase, tableau, basis, pivots, last_pivot, phase2_ran>>
       ELSE /\ phase' = 2
            /\ phase2_ran' = TRUE
            /\ tableau' = InitTableau(canonical_problem)
            /\ basis' = InitBasis(canonical_problem)
            /\ pivots' = 0
            /\ last_pivot' = <<0, 0>>
            /\ pc' = "solving"
            /\ UNCHANGED output
    /\ UNCHANGED <<problem, canonical_problem, auxiliary_problem, aux_solution, solution>>
    /\ UNCHANGED heap_vars

\* main.py:39
WriteSolution ==
    /\ pc = "phase2_done"
    /\ IF WriteFaults(solution, problem)
       THEN /\ pc' = "fault"
            /\ UNCHANGED output
       ELSE /\ pc' = "done"
            /\ output' = write_solution(solution, problem)
    /\ UNCHANGED <<problem, canonical_problem, auxiliary_problem, phase, tableau, basis,
                   pivots, last_pivot, phase2_ran, aux_solution, solution>>
    /\ UNCHANGED heap_vars

Next ==
    \/ ToCanonical
    \/ BuildAuxiliary
    \/ StartPhase1
    \/ StopOptimal
    \/ StopUnbounded
    \/ Pivot
    \/ AfterPhase1
    \/ WriteSolution

Spec == Init /\ [][Next]_vars

-----------------------------------------------------------------------------
(* The engine as a sequential program: main() keeps running while a step is *)
(* possible, so the steps are weakly fair.  Small problems and the examples. *)

InitSmall ==
    \/ \E lp \in Examples : Start(lp)
    \/ StartFamily(1, 1)

FairSpec == InitSmall /\ [][Next]_vars /\ WF_vars(Next)

-----------------------------------------------------------------------------
(* Problems built through the constructor of LinearProblem (models.py:9-38), *)
(* which validates no length: row r is one coefficient short or carries one *)
(* coefficient more than there are variables.                                *)

Reshape(row, extra) == IF extra = -1 THEN SubSeq(row, 1, Len(row) - 1) ELSE Append(row, extra)

InitRagged ==
    \E n \in 1..MaxVars, m \in 1..MaxRows :
      \E o \in [1..n -> Coefs], a \in [1..m -> [1..n -> RowCoefs]], b \in [1..m -> 0..MaxRhs],
         rel \in [1..m -> Relations], mx \in BOOLEAN, r \in 1..m, extra \in {-1} \cup RowCoefs :
           Start(ReadProblem(o, [a EXCEPT ![r] = Reshape(a[r], extra)], b, rel,
                             [j \in 1..n |-> 1], mx))

SpecRagged == InitRagged /\ [][Next]_vars

-----------------------------------------------------------------------------
(* Objects and references.  A Python list or numpy array is an object of the *)
(* heap, named by its address (its index in heap).  A LinearProblem holds    *)
(* the addresses of its lists, and its constraints list holds the addresses  *)
(* of its row lists.  A function that writes through an address changes what *)
(* every holder of that address sees.                                        *)

\* models.py:28-38: the constructor keeps the lists it is handed, by reference
NoRef == LinearProblem(0, 0, 0, 0, 0, FALSE, 0, 0)

\* the value of the problem whose lists stand at the addresses of ref
Deref(h, ref) ==
    LinearProblem(h[ref.objective],
                  [i \in 1..Len(h[ref.constraints]) |-> h[h[ref.constraints][i]]],
                  h[ref.rhs], h[ref.signs], h[ref.var_names], ref.is_max,
                  h[ref.var_signs], ref.n_original_vars)

\* the addresses of the lists of the problem at ref, its rows included
Lists(h, ref) ==
    {ref.objective, ref.constraints, ref.rhs, ref.signs, ref.var_names, ref.var_signs}
        \cup {h[ref.constraints][i] : i \in 1..Len(h[ref.constraints])}

\* a LinearProblem all of whose lists are built anew: the rows, the list of
\* rows, and the five flat lists
Store(h, lp) ==
    LET m == Len(lp.constraints)
        base == Len(h) + m
    IN  [heap |-> h \o lp.constraints
                   \o <<[i \in 1..m |-> Len(h) + i], lp.objective, lp.rhs, lp.signs,
                        lp.var_names, lp.var_signs>>,
         ref |-> LinearProblem(base + 2, base + 1, base + 3, base + 4, base + 5, lp.is_max,
                               base + 6, lp.n_original_vars)]

\* canonical.py:12-62: every list of the result is built by a comprehension, a
\* concatenation or append on a list created in the function
to_canonical_at(h, ref) == Store(h, to_canonical(Deref(h, ref)))

\* a builder that copies the list of rows and not the rows: lp.constraints[:]
copy_rows_shallow(h, ref) == [heap |-> h, at |-> h[ref.constraints]]

\* auxiliary.py:13: [row[:] for row in lp.constraints]
copy_rows(h, ref) ==
    LET m == Len(h[ref.constraints])
    IN  [heap |-> h \o [i \in 1..m |-> h[h[ref.constraints][i]]],
         at |-> [i \in 1..m |-> Len(h) + i]]

\* auxiliary.py:12-56 on the heap
build_auxiliary_at(h, ref) ==
    LET cp == Deref(h, ref)
        m == n_constraints(cp)
        rows == copy_rows(h, ref)
        \* auxiliary.py:14-16: rhs[:], var_names[:], var_signs[:]
        h1 == rows.heap \o <<h[ref.rhs], h[ref.var_names], h[ref.var_signs]>>
        rhs_at == Len(rows.heap) + 1
        names_at == Len(rows.heap) + 2
        var_signs_at == Len(rows.heap) + 3
        \* auxiliary.py:27-29: constraints[i] is bound to a new list when rhs[i] < 0
        negative == {i \in 1..m : RLt(h1[rhs_at][i], Zero)}
        rank(i) == Cardinality({k \in negative : k <= i})
        h2 == h1 \o [k \in 1..Cardinality(negative) |->
                        LET i == CHOOSE x \in negative : rank(x) = k
                        IN  [j \in 1..Len(h1[rows.at[i]]) |-> RNeg(h1[rows.at[i]][j])]]
        slot(i) == IF i \in negative THEN Len(h1) + rank(i) ELSE rows.at[i]
        \* auxiliary.py:30, 33-35, 44, 45: writes into the lists the names are bound to
        h3 == [a \in 1..Len(h2) |->
                  IF \E i \in 1..m : slot(i) = a
                  THEN h2[a] \o artificial_columns(cp, CHOOSE i \in 1..m : slot(i) = a)
                  ELSE IF a = rhs_at
                  THEN [i \in 1..m |-> IF i \in negative THEN RNeg(h2[a][i]) ELSE h2[a][i]]
                  ELSE IF a = names_at THEN h2[a] \o artificial_vars(cp)
                  ELSE IF a = var_signs_at THEN h2[a] \o [i \in 1..m |-> 1]
                  ELSE h2[a]]
        \* the list of rows (auxiliary.py:13), objective (auxiliary.py:40), signs (auxiliary.py:51)
        h4 == h3 \o <<[i \in 1..m |-> slot(i)], aux_objective(cp), [i \in 1..m |-> "="]>>
    IN  [heap |-> h4,
         ref |-> LinearProblem(Len(h3) + 2, Len(h3) + 1, rhs_at, Len(h3) + 3, names_at, FALSE,
                               var_signs_at, ref.n_original_vars)]

\* an engine that keeps one tableau for all its calls
new_array_cached(h) ==
    LET used == {runs[r].tableau : r \in DOMAIN runs} \ {0}
    IN  IF used = {} THEN Len(h) + 1 ELSE CHOOSE a \in used : TRUE

\* simplex.py:37: np.zeros returns an array no other name refers to
new_array(h) == Len(h) + 1

\* the heap h with object obj at address a, which is at most one past the end
Put(h, a, obj) == IF a > Len(h) THEN Append(h, obj) ELSE [h EXCEPT ![a] = obj]

\* simplex.py:4-86 as a function: the result of a call that runs alone
\* (NoSolution when it has not returned within MaxPivots pivots)
RECURSIVE Iterate(_, _, _, _)
Iterate(lp, t, b, fuel) ==
    IF IsOptimal(t) THEN OptimalSolution(lp, t, b)
    ELSE IF IsUnbounded(t) THEN UnboundedSolution
    ELSE IF fuel = 0 THEN NoSolution
    ELSE LET pcol == pivot_col(t)
             pr == pivot_row(t)
         IN  CHOOSE sol \in {Iterate(lp, t2, b2, fuel - 1) :
                                t2 \in {PivotTableau(t, pr, pcol)},
                                b2 \in {UpdateBasis(b, pr, pcol)}} : TRUE

solve_simplex(lp) == Iterate(lp, InitTableau(lp), InitBasis(lp), MaxPivots)

-----------------------------------------------------------------------------
(* Two runs of to_canonical, build_auxiliary, solve_simplex(auxiliary) and   *)
(* solve_simplex(canonical), in the order of main(), on two problems that    *)
(* share no list; the steps of the two runs are taken in any order.          *)

\* maximize x2 with x1 <= 0: -x1 + x2 >= -1 and x1 + x2 = 1 (a negative rhs)
ExNegativeRhs ==
    ReadProblem(<<0, 1>>, <<<<-1, 1>>, <<1, 1>>>>, <<-1, 1>>, <<">=", "=">>, <<-1, 1>>, TRUE)

RunInputs == {ExFeasible, ExInfeasible, ExUnbounded, ExNegativeRhs}

NewRun(ref) ==
    [pc |-> "raw", problem |-> ref, canonical_problem |-> NoRef, auxiliary_problem |-> NoRef,
     phase |-> 0, tableau |-> 0, basis |-> 0, pivots |-> 0, aux_solution |-> NoSolution,
     solution |-> NoSolution]

MainIdle ==
    /\ pc = "idle"
    /\ problem = NoProblem
    /\ canonical_problem = NoProblem
    /\ auxiliary_problem = NoProblem
    /\ phase = 0
    /\ tableau = <<>>
    /\ basis = <<>>
    /\ pivots = 0
    /\ last_pivot = <<0, 0>>
    /\ phase2_ran = FALSE
    /\ aux_solution = NoSolution
    /\ solution = NoSolution
    /\ output = NoOutput

InitInterleaved ==
    /\ MainIdle
    /\ \E lp1 \in RunInputs, lp2 \in RunInputs :
          LET first == Store(<<>>, lp1)
              second == Store(first.heap, lp2)
          IN  /\ heap = second.heap
              /\ runs = <<NewRun(first.ref), NewRun(second.ref)>>

\* main.py:19
RunToCanonical(r) ==
    /\ runs[r].pc = "raw"
    /\ IF CanonicalFaults(Deref(heap, runs[r].problem))
       THEN /\ runs' = [runs EXCEPT ![r].pc = "fault"]
            /\ UNCHANGED heap
       ELSE \E made \in {to_canonical_at(heap, runs[r].problem)} :
                /\ heap' = made.heap
                /\ runs' = [runs EXCEPT ![r].pc = "canonical",
                                        ![r].canonical_problem = made.ref]
    /\ UNCHANGED main_vars

\* main.py:23
RunBuildAuxiliary(r) ==
    /\ runs[r].pc = "canonical"
    /\ \E made \in {build_auxiliary_at(heap, runs[r].canonical_problem)} :
          /\ heap' = made.heap
          /\ runs' = [runs EXCEPT ![r].pc = "auxiliary", ![r].auxiliary_problem = made.ref]
    /\ UNCHANGED main_vars

\* simplex.py:7-40: the arrays and the basis list of a call are created by the call
RunStartSolve(r, next_phase, ref) ==
    \E a \in {new_array(heap)}, lp \in {Deref(heap, ref)} :
        LET h1 == Put(heap, a, InitTableau(lp))
        IN  /\ heap' = Append(h1, InitBasis(lp))
            /\ runs' = [runs EXCEPT ![r].pc = "solving", ![r].phase = next_phase,
                                    ![r].tableau = a, ![r].basis = Len(h1) + 1,
                                    ![r].pivots = 0]

\* main.py:27
RunStartPhase1(r) ==
    /\ runs[r].pc = "auxiliary"
    /\ RunStartSolve(r, 1, runs[r].auxiliary_problem)
    /\ UNCHANGED main_vars

\* the problem the running solve_simplex of run r was called with
RunSolved(r) ==
    Deref(heap, IF runs[r].phase = 1 THEN runs[r].auxiliary_problem
                ELSE runs[r].canonical_problem)

\* solve_simplex returns sol to run r
RunReturn(r, sol) ==
    /\ runs' = IF runs[r].phase = 1
               THEN [runs EXCEPT ![r].pc = "phase1_done", ![r].aux_solution = sol]
               ELSE [runs EXCEPT ![r].pc = "returned", ![r].solution = sol]
    /\ UNCHANGED heap
    /\ UNCHANGED main_vars

\* simplex.py:45-47, 77-86
RunStopOptimal(r) ==
    /\ runs[r].pc = "solving"
    /\ IsOptimal(heap[runs[r].tableau])
    /\ RunReturn(r, OptimalSolution(RunSolved(r), heap[runs[r].tableau], heap[runs[r].basis]))

\* simplex.py:48-52
RunStopUnbounded(r) ==
    /\ runs[r].pc = "solving"
    /\ ~IsOptimal(heap[runs[r].tableau])
    /\ IsUnbounded(heap[runs[r].tableau])
    /\ RunReturn(r, UnboundedSolution)

\* simplex.py:54-75: the rows of the tableau and the basis list are written in place
RunPivot(r) ==
    /\ runs[r].pc = "solving"
    /\ \E t \in {heap[runs[r].tableau]} :
          /\ ~IsOptimal(t)
          /\ ~IsUnbounded(t)
          /\ \E pcol \in {pivot_col(t)}, pr \in {pivot_row(t)} :
                heap' = [heap EXCEPT ![runs[r].tableau] = PivotTableau(t, pr, pcol),
                                     ![runs[r].basis] = UpdateBasis(@, pr, pcol)]
    /\ runs' = [runs EXCEPT ![r].pivots = IF @ < MaxPivots THEN @ + 1 ELSE @]
    /\ UNCHANGED main_vars

\* main.py:29-35
RunAfterPhase1(r) ==
    /\ runs[r].pc = "phase1_done"
    /\ IF ~runs[r].aux_solution.found
       THEN /\ runs' = [runs EXCEPT ![r].pc = "returned"]
            /\ UNCHANGED heap
       ELSE RunStartSolve(r, 2, runs[r].canonical_problem)
    /\ UNCHANGED main_vars

\* the two runs
RunIds == {1, 2}

NextInterleaved ==
    \E r \in RunIds :
        \/ RunToCanonical(r)
        \/ RunBuildAuxiliary(r)
        \/ RunStartPhase1(r)
        \/ RunStopOptimal(r)
        \/ RunStopUnbounded(r)
        \/ RunPivot(r)
        \/ RunAfterPhase1(r)

SpecInterleaved == InitInterleaved /\ [][NextInterleaved]_vars

-----------------------------------------------------------------------------
(* solve_simplex in float64.  The entries of the numpy arrays of solve_simplex *)
(* are IEEE 754 binary64 numbers and every operation rounds to nearest, ties   *)
(* to even.  A number is (-1)^neg * man * 2^exp with man a natural number of   *)
(* 53 bits held as limbs of 15 bits, least significant first; zero has no      *)
(* limbs.  Overflow, subnormal numbers and NaN do not occur on the inputs of   *)
(* the model.                                                                  *)

\* the sets the problems of the float64 runs draw their numbers from
FloatRows == 2
FloatVars == 2
FloatObjective == {-2, -1}
FloatCoefs == {0, 3, 5}
FloatRhs == {0, 7}

LimbBits == 15
LimbBase == 32768
MantBits == 53

\* the natural number a without its leading zero limbs
RECURSIVE BTrim(_)
BTrim(a) ==
    IF a = <<>> THEN a
    ELSE IF a[Len(a)] = 0 THEN BTrim(SubSeq(a, 1, Len(a) - 1)) ELSE a

BLimb(a, i) == IF i <= Len(a) THEN a[i] ELSE 0

\* -1, 0 or 1 as a < b, a = b or a > b, comparing the limbs from i downwards
RECURSIVE BCmpFrom(_, _, _)
BCmpFrom(a, b, i) ==
    IF i = 0 THEN 0
    ELSE IF BLimb(a, i) < BLimb(b, i) THEN -1
    ELSE IF BLimb(a, i) > BLimb(b, i) THEN 1
    ELSE BCmpFrom(a, b, i - 1)

BCmp(a, b) == BCmpFrom(a, b, IF Len(a) > Len(b) THEN Len(a) ELSE Len(b))

RECURSIVE BAddFrom(_, _, _, _)
BAddFrom(a, b, i, carry) ==
    IF i > Len(a) /\ i > Len(b) THEN (IF carry = 0 THEN <<>> ELSE <<carry>>)
    ELSE LET s == BLimb(a, i) + BLimb(b, i) + carry
         IN  <<s % LimbBase>> \o BAddFrom(a, b, i + 1, s \div LimbBase)

BAdd(a, b) == BAddFrom(a, b, 1, 0)

\* a - b for a >= b
RECURSIVE BSubFrom(_, _, _, _)
BSubFrom(a, b, i, borrow) ==
    IF i > Len(a) THEN <<>>
    ELSE LET d == a[i] - BLimb(b, i) - borrow
         IN  IF d < 0 THEN <<d + LimbBase>> \o BSubFrom(a, b, i + 1, 1)
             ELSE <<d>> \o BSubFrom(a, b, i + 1, 0)

BSub(a, b) == BTrim(BSubFrom(a, b, 1, 0))

\* a * k for a limb k
RECURSIVE BScaleFrom(_, _, _, _)
BScaleFrom(a, k, i, carry) ==
    IF i > Len(a) THEN (IF carry = 0 THEN <<>> ELSE <<carry>>)
    ELSE LET p == a[i] * k + carry
         IN  <<p % LimbBase>> \o BScaleFrom(a, k, i + 1, p \div LimbBase)

BScale(a, k) == BTrim(BScaleFrom(a, k, 1, 0))

\* a * LimbBase^n
BShiftLimbs(a, n) == IF a = <<>> THEN a ELSE [i \in 1..n |-> 0] \o a

RECURSIVE BMulFrom(_, _, _)
BMulFrom(a, b, i) ==
    IF i > Len(b) THEN <<>>
    ELSE BAdd(BShiftLimbs(BScale(a, b[i]), i - 1), BMulFrom(a, b, i + 1))

BMul(a, b) == BMulFrom(a, b, 1)

\* a * 2^k
BShl(a, k) == BShiftLimbs(BScale(a, 2^(k % LimbBits)), k \div LimbBits)

\* the limbs 1..i of floor(a / 2^r) for r < LimbBits, carry coming from limb i + 1
RECURSIVE BShrFrom(_, _, _, _)
BShrFrom(a, r, i, carry) ==
    IF i = 0 THEN <<>>
    ELSE LET cur == carry * LimbBase + a[i]
         IN  Append(BShrFrom(a, r, i - 1, cur % (2^r)), cur \div (2^r))

\* floor(a / 2^k)
BShr(a, k) ==
    IF k \div LimbBits >= Len(a) THEN <<>>
    ELSE LET top == SubSeq(a, k \div LimbBits + 1, Len(a))
         IN  BTrim(BShrFrom(top, k % LimbBits, Len(top), 0))

\* the number of bits of a
BBitLen(a) ==
    IF a = <<>> THEN 0
    ELSE (Len(a) - 1) * LimbBits
            + (CHOOSE k \in 1..LimbBits : 2^(k - 1) <= a[Len(a)] /\ a[Len(a)] < 2^k)

BOdd(a) == IF a = <<>> THEN FALSE ELSE a[1] % 2 = 1

\* the natural number n < LimbBase^2
BFromNat(n) == BTrim(<<n % LimbBase, n \div LimbBase>>)

Float(neg, man, exp) == [neg |-> neg, man |-> man, exp |-> exp]

FZero == Float(FALSE, <<>>, 0)

\* np.inf
FInf == Float(FALSE, <<>>, 1)

\* the float64 nearest to (-1)^neg * (man + f) * 2^exp, where 0 < f < 1 when
\* sticky and f = 0 otherwise; ties go to the even mantissa
FRound(neg, man, exp, sticky) ==
    IF man = <<>> THEN FZero
    ELSE LET len == BBitLen(man)
         IN  IF len <= MantBits
             THEN Float(neg, BShl(man, MantBits - len), exp - (MantBits - len))
             ELSE LET sh == len - MantBits
                      q == BShr(man, sh)
                      rem == BSub(man, BShl(q, sh))
                      c == BCmp(rem, BShl(<<1>>, sh - 1))
                      up == IF c > 0 THEN TRUE
                            ELSE IF c < 0 THEN FALSE
                            ELSE IF sticky THEN TRUE ELSE BOdd(q)
                      q2 == IF up THEN BAdd(q, <<1>>) ELSE q
                  IN  IF BBitLen(q2) > MantBits
                      THEN Float(neg, BShr(q2, 1), exp + sh + 1)
                      ELSE Float(neg, q2, exp + sh)

\* float(k) for an integer k
FromInt(k) == FRound(k < 0, BFromNat(IF k < 0 THEN -k ELSE k), 0, FALSE)

FNeg(a) == IF a.man = <<>> THEN a ELSE [a EXCEPT !.neg = ~a.neg]

FMul(a, b) ==
    IF a.man = <<>> THEN FZero
    ELSE IF b.man = <<>> THEN FZero
    ELSE FRound(a.neg # b.neg, BMul(a.man, b.man), a.exp + b.exp, FALSE)

\* a term more than 64 binary places below the other does not reach the
\* rounding position
FAdd(a, b) ==
    IF a.man = <<>> THEN b
    ELSE IF b.man = <<>> THEN a
    ELSE LET hi == IF a.exp >= b.exp THEN a ELSE b
             lo == IF a.exp >= b.exp THEN b ELSE a
             d == hi.exp - lo.exp
         IN  IF d > 64 THEN hi
             ELSE LET mh == BShl(hi.man, d)
                      c == BCmp(mh, lo.man)
                  IN  IF hi.neg = lo.neg
                      THEN FRound(hi.neg, BAdd(mh, lo.man), lo.exp, FALSE)
                      ELSE IF c = 0 THEN FZero
                      ELSE IF c > 0 THEN FRound(hi.neg, BSub(mh, lo.man), lo.exp, FALSE)
                      ELSE FRound(lo.neg, BSub(lo.man, mh), lo.exp, FALSE)

FSub(a, b) == FAdd(a, FNeg(b))

\* one binary place of the long division by b: s.r < b is the remainder, s.q the quotient
DivStep(s, b) ==
    LET r2 == BScale(s.r, 2)
    IN  IF BCmp(r2, b) >= 0
        THEN [r |-> BSub(r2, b), q |-> BAdd(BScale(s.q, 2), <<1>>)]
        ELSE [r |-> r2, q |-> BScale(s.q, 2)]

DivSteps6(s, b) == DivStep(DivStep(DivStep(DivStep(DivStep(DivStep(s, b), b), b), b), b), b)

\* 6 * n binary places
RECURSIVE DivBlocks(_, _, _)
DivBlocks(s, b, n) ==
    IF n = 0 THEN s
    ELSE CHOOSE r \in {DivBlocks(s2, b, n - 1) : s2 \in {DivSteps6(s, b)}} : TRUE

\* a / b for b # 0: the quotient of the mantissas to 54 binary places, rounded
FDiv(a, b) ==
    IF a.man = <<>> THEN FZero
    ELSE LET s0 == IF BCmp(a.man, b.man) >= 0
                   THEN [r |-> BSub(a.man, b.man), q |-> <<1>>]
                   ELSE [r |-> a.man, q |-> <<>>]
             s == DivBlocks(s0, b.man, 9)
         IN  FRound(a.neg # b.neg, s.q, a.exp - b.exp - 54, s.r # <<>>)

FSign(a) == IF a.man = <<>> THEN 0 ELSE IF a.neg THEN -1 ELSE 1

\* -1, 0 or 1 as a < b, a = b or a > b, for finite a and b
FCmp(a, b) ==
    IF FSign(a) # FSign(b) THEN (IF FSign(a) < FSign(b) THEN -1 ELSE 1)
    ELSE IF FSign(a) = 0 THEN 0
    ELSE LET mag == IF a.exp # b.exp THEN (IF a.exp < b.exp THEN -1 ELSE 1)
                    ELSE BCmp(a.man, b.man)
         IN  IF a.neg THEN -mag ELSE mag

\* a < b, np.inf being above every finite number
FLess(a, b) ==
    IF a = FInf THEN FALSE
    ELSE IF b = FInf THEN TRUE
    ELSE FCmp(a, b) < 0

\* 1e-9 as a float64
FEps == Float(FALSE, <<22165, 20557, 14383, 137>>, -82)

\* float(x) of the number x of the input
FromR(x) == IF x[2] = 1 THEN FromInt(x[1]) ELSE FDiv(FromInt(x[1]), FromInt(x[2]))

\* the first index of the least entry of s (np.argmin)
FArgMin(s) ==
    CHOOSE i \in 1..Len(s) :
        /\ \A j \in 1..Len(s) : ~FLess(s[j], s[i])
        /\ \A j \in 1..(i - 1) : FLess(s[i], s[j])

\* simplex.py:8-10, 37-40: the arrays are built with dtype=float
InitTableau_f64(lp) ==
    LET t == InitTableau(lp)
    IN  [i \in 1..Len(t) |-> [j \in 1..Len(t[i]) |-> FromR(t[i][j])]]

\* simplex.py:46
IsOptimal_f64(t) == \A j \in 1..Cols(t) : ~FLess(obj_row(t)[j], FNeg(FEps))

\* simplex.py:48
pivot_col_f64(t) == FArgMin(obj_row(t))

\* simplex.py:51
IsUnbounded_f64(t) == \A i \in 1..Rows(t) : ~FLess(FEps, t[i][pivot_col_f64(t)])

\* simplex.py:55-60
ratios_f64(t) ==
    [i \in 1..Rows(t) |->
        IF FLess(FEps, t[i][pivot_col_f64(t)])
        THEN FDiv(t[i][Cols(t) + 1], t[i][pivot_col_f64(t)])
        ELSE FInf]

\* simplex.py:61
pivot_row_f64(t) == FArgMin(ratios_f64(t))

\* simplex.py:63-69
PivotTableau_f64(t, pr, pcol) ==
    LET lead == [j \in 1..Len(t[pr]) |-> FDiv(t[pr][j], t[pr][pcol])]
    IN  [i \in 1..Len(t) |->
            IF i = pr THEN lead
            ELSE [j \in 1..Len(t[i]) |-> FSub(t[i][j], FMul(t[i][pcol], lead[j]))]]

\* simplex.py:78-86
OptimalSolution_f64(lp, t, b) ==
    LET n == Cols(t)
        k == IF Len(lp.objective) < n THEN Len(lp.objective) ELSE n
        x == [j \in 1..k |->
                LET rows == {i \in 1..Rows(t) : b[i] # NoBasis /\ b[i] = j}
                IN  IF rows = {} THEN FZero
                    ELSE t[CHOOSE i \in rows : \A i2 \in rows : i2 <= i][n + 1]]
        val == t[Rows(t) + 1][n + 1]
    IN  Solution(x, IF lp.is_max THEN val ELSE FNeg(val), TRUE, "simplex: solution found")

\* simplex.py:52
UnboundedSolution_f64 == Solution(<<>>, FInf, FALSE, "objective is not bounded above")

\* the problems in standard form with FloatRows rows and FloatVars variables
\* whose coefficients are taken from FloatCoefs
FloatFamily ==
    {ReadProblem(o, a, b, [i \in 1..FloatRows |-> "="], [j \in 1..FloatVars |-> 1], FALSE) :
        o \in [1..FloatVars -> FloatObjective],
        a \in [1..FloatRows -> [1..FloatVars -> FloatCoefs]],
        b \in [1..FloatRows -> FloatRhs]}

\* minimize -3x1 + x2 - 3x3 - x4 subject to
\*   -4x1 - 3x2 - 3x4 = 0, 3x1 - x2 + 2x3 = 5
ExRounding ==
    ReadProblem(<<-3, 1, -3, -1>>, <<<<-4, -3, 0, -3>>, <<3, -1, 2, 0>>>>, <<0, 5>>,
                <<"=", "=">>, <<1, 1, 1, 1>>, FALSE)

\* a caller hands lp to solve_simplex
InitFloat ==
    /\ \E lp \in FloatFamily \cup {ExRounding, ExUnbounded} : problem = lp
    /\ pc = "f64_call"
    /\ canonical_problem = NoProblem
    /\ auxiliary_problem = NoProblem
    /\ phase = 0
    /\ tableau = <<>>
    /\ basis = <<>>
    /\ pivots = 0
    /\ last_pivot = <<0, 0>>
    /\ phase2_ran = FALSE
    /\ aux_solution = NoSolution
    /\ solution = NoSolution
    /\ output = NoOutput
    /\ heap = <<>>
    /\ runs = <<>>

\* simplex.py:7-40
FloatCall ==
    /\ pc = "f64_call"
    /\ tableau' = InitTableau_f64(problem)
    /\ basis' = InitBasis(problem)
    /\ pc' = "f64_solving"
    /\ UNCHANGED <<problem, canonical_problem, auxiliary_problem, phase, pivots, last_pivot,
                   phase2_ran, aux_solution, solution, output>>
    /\ UNCHANGED heap_vars

\* simplex.py:45-47, 77-86
FloatStopOptimal ==
    /\ pc = "f64_solving"
    /\ IsOptimal_f64(tableau)
    /\ solution' = OptimalSolution_f64(problem, tableau, basis)
    /\ pc' = "f64_returned"
    /\ UNCHANGED <<problem, canonical_problem, auxiliary_problem, phase, tableau, basis,
                   pivots, last_pivot, phase2_ran, aux_solution, output>>
    /\ UNCHANGED heap_vars

\* simplex.py:48-52
FloatStopUnbounded ==
    /\ pc = "f64_solving"
    /\ ~IsOptimal_f64(tableau)
    /\ IsUnbounded_f64(tableau)
    /\ solution' = UnboundedSolution_f64
    /\ pc' = "f64_returned"
    /\ UNCHANGED <<problem, canonical_problem, auxiliary_problem, phase, tableau, basis,
                   pivots, last_pivot, phase2_ran, aux_solution, output>>
    /\ UNCHANGED heap_vars

\* simplex.py:54-75
FloatPivot ==
    /\ pc = "f64_solving"
    /\ ~IsOptimal_f64(tableau)
    /\ ~IsUnbounded_f64(tableau)
    /\ \E pcol \in {pivot_col_f64(tableau)}, pr \in {pivot_row_f64(tableau)} :
          /\ tableau' = PivotTableau_f64(tableau, pr, pcol)
          /\ basis' = UpdateBasis(basis, pr, pcol)
          /\ last_pivot' = <<pr, pcol>>
    /\ pivots' = IF pivots < MaxPivots THEN pivots + 1 ELSE pivots
    /\ UNCHANGED <<pc, problem, canonical_problem, auxiliary_problem, phase, phase2_ran,
                   aux_solution, solution, output>>
    /\ UNCHANGED heap_vars

NextFloat == FloatCall \/ FloatStopOptimal \/ FloatStopUnbounded \/ FloatPivot

SpecFloat == InitFloat /\ [][NextFloat]_vars

-----------------------------------------------------------------------------
(* Vocabulary of the properties *)

CanonicalDone == canonical_problem # NoProblem
AuxiliaryDone == auxiliary_problem # NoProblem

\* the point x satisfies every constraint of lp under its relation and every
\* sign restriction of lp
SatisfiesOriginal(lp, x) ==
    /\ \A i \in 1..Len(lp.constraints) :
        LET v == Dot(lp.constraints[i], x)
        IN  CASE lp.signs[i] = "<=" -> RLeq(v, lp.rhs[i])
              [] lp.signs[i] = ">=" -> RLeq(lp.rhs[i], v)
              [] OTHER -> v = lp.rhs[i]
    /\ \A j \in 1..Len(x) :
        IF lp.var_signs[j] = 1 THEN RLeq(Zero, x[j]) ELSE RLeq(x[j], Zero)

\* Farkas certificate with multipliers in {-1, 0, 1}: some combination of the
\* rows of A x = b has no negative coefficient and a negative right-hand side,
\* so no x >= 0 satisfies the rows
Multipliers == {-1, 0, 1}
CertifiedInfeasible(lp) ==
    \E y \in [1..Len(lp.rhs) -> Multipliers] :
        /\ \A j \in 1..Len(lp.objective) :
              RLeq(Zero, RSum([i \in 1..Len(lp.rhs) |-> RTimesInt(lp.constraints[i][j], y[i])]))
        /\ RLt(RSum([i \in 1..Len(lp.rhs) |-> RTimesInt(lp.rhs[i], y[i])]), Zero)

\* the points whose coordinates are 0..GridMax in the direction of each sign
GridMax == 2
Grid(lp) ==
    {[j \in 1..Len(lp.var_signs) |-> R(lp.var_signs[j] * k[j])] :
        k \in [1..Len(lp.var_signs) -> 0..GridMax]}
FeasibleGrid(lp) == {x \in Grid(lp) : SatisfiesOriginal(lp, x)}

\* weak duality with multipliers in {-1, 0, 1}: the objective of the canonical
\* problem cp is bounded in its sense over {x >= 0 : A x = b}
CertifiedBounded(cp) ==
    \E y \in [1..Len(cp.rhs) -> Multipliers] :
        \A j \in 1..Len(cp.objective) :
            LET yA == RSum([i \in 1..Len(cp.rhs) |-> RTimesInt(cp.constraints[i][j], y[i])])
            IN  IF cp.is_max THEN RLeq(cp.objective[j], yA) ELSE RLeq(yA, cp.objective[j])

\* some constraint row of lp is shorter or longer than the variable count
RaggedInput(lp) ==
    \E i \in 1..Len(lp.constraints) : Len(lp.constraints[i]) # Len(lp.var_names)

\* the dimension invariants of a LinearProblem: n columns everywhere, m rows everywhere
DimensionsOk(lp) ==
    LET n == Len(lp.objective)
        m == Len(lp.constraints)
    IN  /\ \A i \in 1..m : Len(lp.constraints[i]) = n
        /\ Len(lp.var_signs) = n
        /\ Len(lp.var_names) = n
        /\ Len(lp.rhs) = m
        /\ Len(lp.signs) = m

\* the order of main(): each stage has what the stages before it produced,
\* phase 2 runs only after a found phase-1 result, and a not-found phase-1
\* result is written without a phase 2
StagesInOrder ==
    /\ pc = "raw" => (~CanonicalDone /\ ~AuxiliaryDone /\ phase = 0)
    /\ pc = "canonical" => (CanonicalDone /\ ~AuxiliaryDone /\ phase = 0)
    /\ pc = "auxiliary" => (CanonicalDone /\ AuxiliaryDone /\ phase = 0)
    /\ phase >= 1 => (CanonicalDone /\ AuxiliaryDone)
    /\ pc = "phase1_done" => (phase = 1 /\ aux_solution # NoSolution /\ ~phase2_ran)
    /\ phase2_ran <=> phase = 2
    /\ phase2_ran => aux_solution.found
    /\ pc = "phase2_done" => (phase2_ran /\ solution # NoSolution)
    /\ output.written <=> pc = "done"
    /\ pc = "done" =>
          IF phase2_ran THEN output = write_solution(solution, problem)
          ELSE ~aux_solution.found /\ output = write_solution_plain(aux_solution)

\* the addresses run r holds: the lists of its problems, its tableau, its basis
Owned(h, run) ==
    Lists(h, run.problem)
        \cup (IF run.canonical_problem # NoRef THEN Lists(h, run.canonical_problem) ELSE {})
        \cup (IF run.auxiliary_problem # NoRef THEN Lists(h, run.auxiliary_problem) ELSE {})
        \cup ({run.tableau, run.basis} \ {0})

\* what run r returns when no other run takes a step: the phase-1 result and,
\* after a found phase-1 result, the phase-2 result
AloneResult(lp) ==
    LET alone1 == solve_simplex(build_auxiliary(to_canonical(lp)))
    IN  [aux_solution |-> alone1,
         solution |-> IF alone1.found THEN solve_simplex(to_canonical(lp)) ELSE NoSolution]

\* column j of tableau t holds 1 in constraint row i and 0 in the other constraint rows
UnitColumnAt(t, i, j) == \A k \in 1..Rows(t) : t[k][j] = IF k = i THEN One ELSE Zero

\* value a is at least as good as value b in the sense of lp
AsGoodAs(lp, a, b) == IF lp.is_max THEN RLeq(b, a) ELSE RLeq(a, b)

\* the results of the inputs of the interleaved runs, each run alone
AloneResults == [lp \in RunInputs |-> AloneResult(lp)]

-----------------------------------------------------------------------------
(* Properties *)

\* C1: whatever the relations and variable signs of the input, the problem
\* returned by to_canonical has '=' on every row and sign +1 on every variable.
C1_CanonicalForm ==
    CanonicalDone =>
        /\ Len(canonical_problem.signs) = Len(canonical_problem.constraints)
        /\ \A i \in 1..Len(canonical_problem.signs) : canonical_problem.signs[i] = "="
        /\ Len(canonical_problem.var_signs) = Len(canonical_problem.objective)
        /\ \A j \in 1..Len(canonical_problem.var_signs) : canonical_problem.var_signs[j] = 1

C1_Witness ==
    /\ pc = "canonical"
    /\ \E i \in 1..Len(problem.signs) : problem.signs[i] = ">="
    /\ \E i \in 1..Len(problem.signs) : problem.signs[i] = "<="
    /\ \E j \in 1..Len(problem.var_signs) : problem.var_signs[j] = -1

\* C2: whenever the pipeline reports an optimal solution, the reported point
\* satisfies every original constraint under its relation and every sign
\* restriction of the original problem.
C2_ReportedPointFeasible ==
    (pc = "done" /\ output.found) => SatisfiesOriginal(problem, output.values)

\* C3: for a problem whose constraints have no solution (the worked example
\* x1 + x2 = 1, x1 + x2 = 3 among them) phase 2 is never run and the run ends
\* with a not-found result.
C3_InfeasibleReported ==
    (phase2_ran \/ (pc = "done" /\ output.found)) =>
        ~(problem = ExInfeasible \/ CertifiedInfeasible(canonical_problem))

\* C4: the value solve_simplex returns for the auxiliary problem is the least
\* sum of the artificial variables: above the tolerance when the canonical
\* problem has no nonnegative solution, and 0 when it has one.
C4_Phase1Value ==
    pc = "phase1_done" =>
        /\ CertifiedInfeasible(canonical_problem) => GtEps(aux_solution.value)
        /\ FeasibleGrid(problem) # {} => (aux_solution.found /\ aux_solution.value = Zero)

\* C5: for a feasible bounded problem the run reports an optimal solution whose
\* point is feasible and whose objective value no feasible point beats; for
\* the worked example the point is (3, 1) and the value is 9.
C5_FeasibleBoundedOptimal ==
    /\ (pc = "done" /\ FeasibleGrid(problem) # {} /\ CertifiedBounded(canonical_problem)) =>
          /\ output.found
          /\ SatisfiesOriginal(problem, output.values)
          /\ output.value = Dot(problem.objective, output.values)
          /\ \A x \in FeasibleGrid(problem) :
                AsGoodAs(problem, output.value, Dot(problem.objective, x))
    /\ (pc = "done" /\ problem = ExFeasible) =>
          /\ output.found
          /\ output.values = <<R(3), R(1)>>
          /\ output.value = R(9)

\* C6: a step of solve_simplex ends the run with the not-found, empty-point
\* result exactly when every constraint-row entry of the entering column is
\* <= 1e-9, and that step changes neither the tableau nor the basis; the worked
\* example maximize x1, x1 - x2 <= 1 ends that way.
C6_UnboundedStop ==
    [][pc = "solving" =>
        LET res == IF phase = 1 THEN aux_solution' ELSE solution'
            unb == pc' # "solving" /\ ~res.found
        IN  /\ IsOptimal(tableau) => ~unb
            /\ ~IsOptimal(tableau) =>
                  (unb <=> \A i \in 1..Rows(tableau) : LeqEps(tableau[i][pivot_col(tableau)]))
            /\ unb => (res.point = <<>> /\ tableau' = tableau /\ basis' = basis
                                         /\ pivots' = pivots)
            /\ (problem = ExUnbounded /\ phase = 2 /\ pc' # "solving") => unb]_vars

C6_Witness ==
    /\ pc = "phase2_done"
    /\ ~solution.found
    /\ solution.point = <<>>
    /\ pivots > 0
    /\ problem = ExUnbounded

\* C7: every reported value is var_signs[j] times the raw canonical value, so a
\* variable declared <= 0 that is nonzero is reported negative and a variable
\* declared >= 0 is never reported negative.
C7_MappedValues ==
    (pc = "done" /\ output.found) =>
        \A j \in 1..problem.n_original_vars :
            /\ output.values[j] = RTimesInt(solution.point[j], problem.var_signs[j])
            /\ problem.var_signs[j] = 1 => RLeq(Zero, output.values[j])
            /\ (problem.var_signs[j] = -1 /\ solution.point[j] # Zero) =>
                  RLt(output.values[j], Zero)

\* C8: every run of the engine terminates.
C8_Terminates == <>(pc \in {"done", "fault"})

\* C9: a problem with a constraint row whose length differs from the variable
\* count is rejected with a DimensionMismatch result: no fault escapes, no
\* pivot is performed and the run ends not found with that reason.
C9_DimensionMismatchRejected ==
    RaggedInput(problem) =>
        /\ pc # "fault"
        /\ pivots = 0
        /\ pc = "done" => (~output.found /\ output.reason = "DimensionMismatch")

\* C10: in the problem returned by build_auxiliary every rhs is >= 0; a row
\* whose rhs was negative has every coefficient and its rhs negated, every
\* other row keeps its coefficients and its rhs.
C10_AuxiliaryRhs ==
    AuxiliaryDone =>
        LET cp == canonical_problem
            ap == auxiliary_problem
        IN  /\ Len(ap.rhs) = Len(cp.rhs)
            /\ Len(ap.constraints) = Len(cp.constraints)
            /\ \A i \in 1..Len(cp.rhs) :
                  /\ RLeq(Zero, ap.rhs[i])
                  /\ IF RLt(cp.rhs[i], Zero)
                     THEN /\ ap.rhs[i] = RNeg(cp.rhs[i])
                          /\ \A j \in 1..Len(cp.constraints[i]) :
                                ap.constraints[i][j] = RNeg(cp.constraints[i][j])
                     ELSE /\ ap.rhs[i] = cp.rhs[i]
                          /\ \A j \in 1..Len(cp.constraints[i]) :
                                ap.constraints[i][j] = cp.constraints[i][j]

C10_Witness ==
    /\ pc = "auxiliary"
    /\ \E i \in 1..Len(canonical_problem.rhs) :
          /\ RLt(canonical_problem.rhs[i], Zero)
          /\ \E j \in 1..Len(canonical_problem.constraints[i]) :
                canonical_problem.constraints[i][j] # Zero
    /\ \E i \in 1..Len(canonical_problem.rhs) : RLt(Zero, canonical_problem.rhs[i])

\* C11: for a canonical problem with m rows and n columns the auxiliary problem
\* has m more columns after the n existing ones, column n + k holding 1 in row k
\* and 0 in every other row, whether or not the row already holds a unit
\* column; its objective is 0 on the first n columns and 1 on the m added
\* ones, and its sense is minimize.
C11_ArtificialColumns ==
    AuxiliaryDone =>
        LET cp == canonical_problem
            ap == auxiliary_problem
            m == Len(cp.constraints)
            n == Len(cp.constraints[1])
        IN  /\ Len(ap.constraints) = m
            /\ \A i \in 1..m :
                  /\ Len(ap.constraints[i]) = n + m
                  /\ \A k \in 1..m : ap.constraints[i][n + k] = IF i = k THEN One ELSE Zero
            /\ Len(ap.objective) = n + m
            /\ \A j \in 1..(n + m) : ap.objective[j] = IF j <= n THEN Zero ELSE One
            /\ ap.is_max = FALSE

\* two rows, one of which already holds the unit column of its slack variable
C11_Witness ==
    /\ pc = "auxiliary"
    /\ Len(canonical_problem.constraints) = 2
    /\ \E i \in 1..2 : problem.signs[i] = "<=" /\ ~RLt(problem.rhs[i], Zero)
    /\ \E i \in 1..2 : problem.signs[i] = "="

\* C12: no step of to_canonical, build_auxiliary or solve_simplex changes a
\* list of a problem that exists: objective, rows, rhs, relations, names,
\* var_signs, is_max and n_original_vars of the argument are after the call
\* what they were before; and the problem a transform returns shares no list
\* with its input, nor with the arrays of the engine.
C12_ArgumentsUnchanged ==
    [][\A r \in DOMAIN runs :
          LET before == runs[r]
              after == runs'[r]
          IN  /\ Deref(heap', before.problem) = Deref(heap, before.problem)
              /\ before.canonical_problem # NoRef =>
                    Deref(heap', before.canonical_problem) = Deref(heap, before.canonical_problem)
              /\ before.auxiliary_problem # NoRef =>
                    Deref(heap', before.auxiliary_problem) = Deref(heap, before.auxiliary_problem)
              /\ after.canonical_problem # NoRef =>
                    Lists(heap', after.canonical_problem) \cap Lists(heap', after.problem) = {}
              /\ after.auxiliary_problem # NoRef =>
                    Lists(heap', after.auxiliary_problem)
                        \cap (Lists(heap', after.canonical_problem)
                                \cup Lists(heap', after.problem)) = {}
              /\ after.tableau # 0 =>
                    {after.tableau, after.basis}
                        \cap (Lists(heap', after.problem)
                                \cup Lists(heap', after.canonical_problem)
                                \cup Lists(heap', after.auxiliary_problem)) = {}]_vars

\* a run whose canonical problem has a row of negative rhs (negated by
\* build_auxiliary) has returned after pivots on the canonical problem
C12_Witness ==
    \E r \in DOMAIN runs :
        /\ runs[r].pc = "returned"
        /\ runs[r].phase = 2
        /\ runs[r].pivots > 0
        /\ \E i \in 1..Len(heap[runs[r].problem.rhs]) :
              RLt(heap[runs[r].problem.rhs][i], Zero)

\* C13: to_canonical applied to a problem that is already canonical (every
\* relation '=', every sign +1) returns the same objective, rows and rhs with
\* no column added; so to_canonical(to_canonical(p)) = to_canonical(p).
C13_CanonicalIdempotent ==
    CanonicalDone =>
        /\ to_canonical(canonical_problem) = canonical_problem
        /\ ((\A i \in 1..Len(problem.signs) : problem.signs[i] = "=")
              /\ (\A j \in 1..Len(problem.var_signs) : problem.var_signs[j] = 1)) =>
                 /\ canonical_problem.objective = problem.objective
                 /\ canonical_problem.constraints = problem.constraints
                 /\ canonical_problem.rhs = problem.rhs

\* the first canonicalization added a slack and a surplus column; the second adds none
C13_Witness ==
    /\ pc = "canonical"
    /\ \E i \in 1..Len(problem.signs) : problem.signs[i] = "<="
    /\ \E i \in 1..Len(problem.signs) : problem.signs[i] = ">="
    /\ Len(to_canonical(canonical_problem).objective) = Len(problem.objective) + 2

\* C14: after a pivot of solve_simplex the entering column holds 1 in the pivot
\* row and 0 in every other row of the tableau, the objective row included.
C14_EnteringColumnUnit ==
    last_pivot # <<0, 0>> =>
        \A i \in 1..Len(tableau) :
            tableau[i][last_pivot[2]] = IF i = last_pivot[1] THEN One ELSE Zero

\* a second pivot in a tableau with two constraint rows, on an element other than 1
C14_Witness ==
    /\ pc = "solving"
    /\ pivots >= 2
    /\ Rows(tableau) >= 2
    /\ \E j \in 1..Cols(tableau) : tableau[last_pivot[1]][j][2] > 1

\* C15: when phase 1 ended with a value <= 1e-9, the run of solve_simplex on
\* the canonical problem ends either with a found solution or with the
\* not-bounded result; it never reports that the constraints are infeasible.
C15_Phase2NeverInfeasible ==
    (pc \in {"phase2_done", "done"} /\ phase2_ran /\ LeqEps(aux_solution.value)) =>
        \/ solution.found /\ solution.reason = "simplex: solution found"
        \/ ~solution.found /\ solution.reason = "objective is not bounded above"
                           /\ solution.value = Inf

\* phase 1 ended with value 0 and phase 2 ended without a solution
C15_Witness ==
    /\ pc = "phase2_done"
    /\ aux_solution.found
    /\ aux_solution.value = Zero
    /\ ~solution.found

\* C16: the point of the Solution returned for the solved problem has
\* n_original_vars entries: no slack, surplus or artificial value is in it.
C16_PointOriginalOnly ==
    (pc \in {"phase2_done", "done"} /\ solution.found) =>
        Len(solution.point) = problem.n_original_vars

C18_DimensionsKept ==
    DimensionsOk(problem) =>
        /\ CanonicalDone => DimensionsOk(canonical_problem)
        /\ AuxiliaryDone => DimensionsOk(auxiliary_problem)

\* two rows, slack columns added by to_canonical, artificial columns by build_auxiliary
C18_Witness ==
    /\ pc = "auxiliary"
    /\ DimensionsOk(problem)
    /\ Len(problem.constraints) = 2
    /\ Len(canonical_problem.objective) > Len(problem.objective)
    /\ Len(auxiliary_problem.objective) = Len(canonical_problem.objective) + 2

\* C19: every run goes through raw, canonical, auxiliary, phase 1 and, only
\* after a found phase-1 result, phase 2; a not-found phase-1 result is written
\* at once without a phase 2; and every run ends with one result handed to the
\* output writer.
C19_SolveOrder == [](StagesInOrder) /\ <>(pc = "done" /\ output.written)

\* C20: two runs whose steps are taken in any order hold disjoint objects:
\* a step of one run changes neither the tableau, the basis nor a problem of
\* the other, and each run returns the results it returns when it runs alone.
C20_RunsIndependent ==
    [][\A q \in DOMAIN runs :
          /\ \A r \in DOMAIN runs : r # q => Owned(heap', runs'[r]) \cap Owned(heap', runs'[q]) = {}
          /\ runs'[q] = runs[q] =>
                /\ \A a \in Owned(heap, runs[q]) : heap'[a] = heap[a]
          /\ (runs'[q].pc = "returned" /\ runs[q].pc # "returned") =>
                LET lp == Deref(heap', runs'[q].problem)
                IN  /\ lp \in RunInputs
                    /\ runs'[q].aux_solution = AloneResults[lp].aux_solution
                    /\ runs'[q].solution = AloneResults[lp].solution]_vars

\* both runs are inside solve_simplex on different problems, each after a pivot
C20_Witness ==
    /\ DOMAIN runs = {1, 2}
    /\ runs[1].pc = "solving"
    /\ runs[2].pc = "solving"
    /\ runs[1].pivots > 0
    /\ runs[2].pivots > 0
    /\ runs[1].tableau # runs[2].tableau
    /\ heap[runs[1].tableau] # heap[runs[2].tableau]

\* C21: on every auxiliary problem solve_simplex starts with an objective row
\* of 0 and 1 entries, performs no pivot and returns found with an all-zero
\* point and value 0; so main never takes its not-found branch and every run
\* that ends has run phase 2.
C21_Phase1NoPivot ==
    /\ (phase = 1 /\ pc = "solving") =>
          /\ pivots = 0
          /\ IsOptimal(tableau)
          /\ \A j \in 1..Cols(tableau) : obj_row(tableau)[j] \in {Zero, One}
    /\ pc = "phase1_done" =>
          /\ pivots = 0
          /\ aux_solution.found
          /\ aux_solution.value = Zero
          /\ Len(aux_solution.point) = Len(auxiliary_problem.objective)
          /\ \A j \in 1..Len(aux_solution.point) : aux_solution.point[j] = Zero
    /\ pc = "done" => phase2_ran

\* phase 1 has returned for the worked example whose constraints have no solution
C21_Witness ==
    /\ pc = "phase1_done"
    /\ problem = ExInfeasible
    /\ aux_solution.found

\* C22: at the start of solve_simplex every row that has a unit column (1 in
\* that row, 0 in every other constraint row) has that column, or another such
\* column, as its basis entry.
C22_InitialBasisFromUnitColumns ==
    (pc = "solving" /\ pivots = 0) =>
        \A i \in 1..Rows(tableau) :
            (\E j \in 1..Cols(tableau) : UnitColumnAt(tableau, i, j)) =>
                IF basis[i] = NoBasis THEN FALSE ELSE UnitColumnAt(tableau, i, basis[i])

\* C23 as stated: the tableau at the start has m + 1 rows of n + 1 cells, the
\* constraint rows hold the matrix and the rhs, and the last row holds the
\* objective negated for a minimize problem, as it is for a maximize problem,
\* and 0 in the last cell.
C23_TableauAsStated ==
    (pc = "solving" /\ pivots = 0) =>
        LET m == Len(Solved.constraints)
            n == Len(Solved.objective)
        IN  /\ Len(tableau) = m + 1
            /\ \A i \in 1..m : tableau[i] = Solved.constraints[i] \o <<Solved.rhs[i]>>
            /\ tableau[m + 1] =
                  [j \in 1..n |-> IF Solved.is_max THEN Solved.objective[j]
                                  ELSE RNeg(Solved.objective[j])] \o <<Zero>>

\* C23 amended: the same, with the last row holding the objective negated for
\* a maximize problem and as it is for a minimize problem.
C23_TableauInit ==
    (pc = "solving" /\ pivots = 0) =>
        LET m == Len(Solved.constraints)
            n == Len(Solved.objective)
        IN  /\ Len(tableau) = m + 1
            /\ \A i \in 1..(m + 1) : Len(tableau[i]) = n + 1
            /\ \A i \in 1..m : tableau[i] = Solved.constraints[i] \o <<Solved.rhs[i]>>
            /\ tableau[m + 1] =
                  [j \in 1..n |-> IF Solved.is_max THEN RNeg(Solved.objective[j])
                                  ELSE Solved.objective[j]] \o <<Zero>>

\* the tableau of a maximize problem with two rows and a nonzero objective, before a pivot
C23_Witness ==
    /\ pc = "solving"
    /\ phase = 2
    /\ pivots = 0
    /\ canonical_problem.is_max
    /\ Len(canonical_problem.constraints) = 2
    /\ \E j \in 1..Len(canonical_problem.objective) : canonical_problem.objective[j] # Zero

\* the running solve_simplex returns in this step with a found solution
ReturnsOptimal ==
    /\ pc = "solving"
    /\ pc' \in {"phase1_done", "phase2_done"}
    /\ IF phase = 1 THEN aux_solution'.found ELSE solution'.found

\* the running solve_simplex pivots in this step
Pivots == pc = "solving" /\ pc' = "solving" /\ vars' # vars

\* C24: an iteration of solve_simplex returns the found solution exactly when
\* every entry of the objective row, the rhs cell excluded, is >= -1e-9;
\* when it pivots, the entering column holds the least entry of the objective
\* row and is the first column that does.
C24_EnteringRule ==
    [][ (pc = "solving" /\ vars' # vars) =>
            LET o == SubSeq(tableau[Len(tableau)], 1, Len(tableau[1]) - 1)
            IN  /\ ReturnsOptimal <=> \A j \in 1..Len(o) : GeqNegEps(o[j])
                /\ Pivots =>
                      LET c == last_pivot'[2]
                      IN  /\ ~GeqNegEps(o[c])
                          /\ \A j \in 1..Len(o) : RLeq(o[c], o[j])
                          /\ \A j \in 1..(c - 1) : RLt(o[c], o[j]) ]_vars

\* the first pivot of phase 2 entered column 1 of an objective row whose first
\* two entries are equal and negative
C24_Witness ==
    /\ pc = "solving"
    /\ phase = 2
    /\ pivots = 1
    /\ last_pivot[2] = 1
    /\ LET o == obj_row(InitTableau(canonical_problem))
       IN  /\ Len(o) >= 2
           /\ o[1] = o[2]
           /\ RLt(o[1], Zero)

\* C25: the row of a pivot has an entering-column entry > 1e-9, its ratio
\* rhs / entry is the least among the rows with an entry > 1e-9, and it is the
\* first row with that ratio; a row with an entry <= 1e-9 is never the pivot row.
C25_LeavingRule ==
    [][ Pivots =>
            LET r == last_pivot'[1]
                c == last_pivot'[2]
                rhs(i) == tableau[i][Len(tableau[i])]
                ratio(i) == RDiv(rhs(i), tableau[i][c])
            IN  /\ GtEps(tableau[r][c])
                /\ \A i \in 1..(Len(tableau) - 1) :
                      GtEps(tableau[i][c]) =>
                          /\ RLeq(ratio(r), ratio(i))
                          /\ i < r => RLt(ratio(r), ratio(i)) ]_vars

\* the second pivot of phase 2 passed over a row with a negative entry in the
\* entering column and a positive rhs, whose ratio is below that of the pivot row
C25_Witness ==
    /\ pc = "solving"
    /\ phase = 2
    /\ pivots = 2
    /\ LET t0 == InitTableau(canonical_problem)
           t1 == PivotTableau(t0, pivot_row(t0), pivot_col(t0))
       IN  \E i \in 1..Rows(t1) :
              /\ i # last_pivot[1]
              /\ RLt(t1[i][last_pivot[2]], Zero)
              /\ RLt(Zero, t1[i][Cols(t1) + 1])

\* the problem built from the fields of lp with var_signs left out
WithoutVarSigns(lp) ==
    NewLinearProblem(lp.objective, lp.constraints, lp.rhs, lp.signs, lp.var_names, lp.is_max,
                     NoVarSigns, lp.n_original_vars)

\* C26: in the result of to_canonical the coefficient of variable j is the
\* input's coefficient negated in every row and in the objective when
\* var_signs[j] = -1 and the input's coefficient when var_signs[j] = +1, and
\* every rhs is the input's rhs; a problem built without var_signs has
\* var_signs all +1 and keeps every coefficient.
C26_SignSubstitution ==
    CanonicalDone =>
        LET n == Len(problem.var_names)
            m == Len(problem.constraints)
            flip(x, sg) == IF sg = -1 THEN RNeg(x) ELSE x
            d == WithoutVarSigns(problem)
            dc == to_canonical(d)
        IN  /\ \A i \in 1..m : \A j \in 1..n :
                  canonical_problem.constraints[i][j] =
                      flip(problem.constraints[i][j], problem.var_signs[j])
            /\ \A j \in 1..n :
                  canonical_problem.objective[j] = flip(problem.objective[j], problem.var_signs[j])
            /\ canonical_problem.rhs = problem.rhs
            /\ d.var_signs = [j \in 1..n |-> 1]
            /\ \A i \in 1..m : SubSeq(dc.constraints[i], 1, n) = problem.constraints[i]
            /\ SubSeq(dc.objective, 1, n) = problem.objective
            /\ dc.rhs = problem.rhs

\* a canonicalized problem with a -1 variable that has a nonzero coefficient in
\* the objective and in a row with a negative rhs, next to a +1 variable
C26_Witness ==
    /\ CanonicalDone
    /\ \E j \in 1..Len(problem.var_signs) :
          /\ problem.var_signs[j] = -1
          /\ problem.objective[j] # Zero
          /\ \E i \in 1..Len(problem.constraints) :
                /\ problem.constraints[i][j] # Zero
                /\ RLt(problem.rhs[i], Zero)
    /\ \E j \in 1..Len(problem.var_signs) :
          problem.var_signs[j] = 1 /\ problem.objective[j] # Zero

\* C27: to_canonical appends one column per row whose relation is not '=', in
\* the order of the rows: the column of a '<=' row holds +1 in that row, the
\* column of a '>=' row holds -1 in that row, and both hold 0 in every other
\* row; an '=' row gets no column; every appended column has objective
\* coefficient 0 and sign +1.
C27_SlackColumns ==
    CanonicalDone =>
        LET n == Len(problem.var_names)
            m == Len(problem.signs)
            \* the rows whose relation is not '=', and the rank of row i among them
            slack_rows == {i \in 1..m : problem.signs[i] # "="}
            rank(i) == Cardinality({k \in slack_rows : k <= i})
        IN  /\ Len(canonical_problem.objective) = n + Cardinality(slack_rows)
            /\ Len(canonical_problem.var_signs) = n + Cardinality(slack_rows)
            /\ \A i \in 1..m : Len(canonical_problem.constraints[i]) = n + Cardinality(slack_rows)
            /\ \A i \in slack_rows : \A k \in 1..m :
                  canonical_problem.constraints[k][n + rank(i)] =
                      IF k # i THEN Zero
                      ELSE IF problem.signs[i] = "<=" THEN One ELSE R(-1)
            /\ \A c \in (n + 1)..(n + Cardinality(slack_rows)) :
                  /\ canonical_problem.objective[c] = Zero
                  /\ canonical_problem.var_signs[c] = 1

\* a canonicalized problem whose rows are an '=' row followed by a '>=' row,
\* or a '>=' row followed by a '<=' row
C27_Witness ==
    /\ CanonicalDone
    /\ problem.signs \in {<<"=", ">=">>, <<">=", "<=">>}

\* the basis entries that are set name unit columns of the whole tableau, the
\* objective row included, and no column twice
BasisUnit ==
    \A i \in 1..Len(basis) :
        basis[i] # NoBasis =>
            /\ \A k \in 1..Len(tableau) : tableau[k][basis[i]] = IF k = i THEN One ELSE Zero
            /\ \A k \in 1..Len(basis) : k # i => basis[k] # basis[i]

\* the point of sol holds the rhs of row i at position basis[i] and 0 at the
\* positions no basis entry names
PointFromBasis(sol) ==
    \A j \in 1..Len(sol.point) :
        sol.point[j] =
            IF \E i \in 1..Len(basis) : basis[i] = j
            THEN tableau[CHOOSE i \in 1..Len(basis) : basis[i] = j][Len(tableau[1])]
            ELSE Zero

\* C28: during and after a run of solve_simplex on a problem with '=' rows
\* only, every basis entry that is set names a unit column (1 in its row, 0 in
\* the other constraint rows and in the objective row) and no two rows name
\* the same column; a pivot sets the entry of the pivot row to the entering
\* column and leaves the other entries, so a row that was never a pivot row
\* keeps None; the returned point takes a value only from the rows whose entry
\* is set.
C28_BasisUnitColumns ==
    /\ [](pc \in {"solving", "phase1_done", "phase2_done"} => BasisUnit)
    /\ []((pc = "solving" /\ pivots = 0) => \A i \in 1..Len(basis) : basis[i] = NoBasis)
    /\ [](pc = "phase1_done" /\ aux_solution.found => PointFromBasis(aux_solution))
    /\ [](pc = "phase2_done" /\ solution.found => PointFromBasis(solution))
    /\ [][ Pivots =>
              /\ Len(basis') = Len(basis)
              /\ \A i \in 1..Len(basis) :
                    basis'[i] = IF i = last_pivot'[1] THEN last_pivot'[2] ELSE basis[i] ]_vars

\* phase 2 returned a found solution after a pivot, with a row that was never
\* a pivot row and has a nonzero rhs
C28_Witness ==
    /\ pc = "phase2_done"
    /\ solution.found
    /\ pivots >= 1
    /\ \E i \in 1..Len(basis) : basis[i] # NoBasis
    /\ \E i \in 1..Len(basis) : basis[i] = NoBasis /\ tableau[i][Len(tableau[i])] # Zero

\* the running float64 solve_simplex pivots in this step
FloatPivots == pc = "f64_solving" /\ pc' = "f64_solving" /\ vars' # vars

\* C29: when every rhs of the problem passed to solve_simplex is >= 0, the
\* rhs cell of every constraint row of the tableau is >= 0 after every pivot.
C29_RhsNonnegative ==
    (pc \in {"f64_solving", "f64_returned"}
        /\ \A i \in 1..Len(problem.rhs) : RLeq(Zero, problem.rhs[i])) =>
        \A i \in 1..Rows(tableau) : ~FLess(tableau[i][Cols(tableau) + 1], FZero)

\* C30: when every rhs of the problem passed to solve_simplex is >= 0, a
\* pivot never decreases the last cell of the objective row.
C30_CornerNeverDecreases ==
    [][ (FloatPivots /\ \A i \in 1..Len(problem.rhs) : RLeq(Zero, problem.rhs[i])) =>
            ~FLess(tableau'[Len(tableau)][Len(tableau[1])],
                   tableau[Len(tableau)][Len(tableau[1])]) ]_vars

====
